---- MODULE Spec2Model ----
(***************************************************************************)
(* A model of refresh_script.py: the one-shot job that fetches sales-order *)
(* records from NetSuite (fetch_netsuite_data), derives six KPI fields per *)
(* record (calculate_kpi_fields) and overwrites NetSuite_KPI_Data.json     *)
(* (save_to_json), sequenced by main.                                      *)
(*                                                                         *)
(* Python values are tagged records: None, str (a tuple of characters),    *)
(* int, float (held exactly, in hundredths) and the float NaN.  A dict is  *)
(* a function whose DOMAIN is the set of keys present.  An exception is a  *)
(* result with raised = TRUE, so that every try/except of the source is a  *)
(* visible step of the model.                                              *)
(***************************************************************************)
EXTENDS Integers, Sequences, FiniteSets, TLC

\* pc         where main stands: "start", "fetched", "enriched", "exited"
\* response   the service's answer to requests.post (None before the call)
\* data       main's variable data: None or a list of rows
\* fetched    what fetch_netsuite_data returned, as it was returned
\* file       the content of NetSuite_KPI_Data.json
\* file0      its content when the process started
\* calls      which of calculate_kpi_fields and save_to_json main has called
\* exit_code  the exit status, once pc = "exited" (-1 while running)
VARIABLES pc, response, data, fetched, file, file0, calls, exit_code

vars == <<pc, response, data, fetched, file, file0, calls, exit_code>>

(***************************************************************************)
(* Bounds of the model.                                                    *)
(***************************************************************************)
\* The longest "items" list the service returns in the run specification.
MaxRecords == 2

(***************************************************************************)
(* Python values.                                                          *)
(***************************************************************************)
None == [t |-> "null"]

Str(s) == [t |-> "str", s |-> s]

IntVal(n) == [t |-> "int", n |-> n]

\* A finite float, held exactly as a whole number of hundredths.
FloatVal(h) == [t |-> "float", h |-> h]

NaN == [t |-> "nan"]

\* A list, as response.json() builds it for a JSON array.
List(xs) == [t |-> "list", xs |-> xs]

\* bool(v), as `if v`, `a and b` and `a or b` apply it.
Truthy(v) ==
    CASE v.t = "null" -> FALSE
      [] v.t = "str" -> Len(v.s) > 0
      [] v.t = "int" -> v.n # 0
      [] v.t = "float" -> v.h # 0
      [] v.t = "list" -> Len(v.xs) > 0
      [] OTHER -> TRUE

\* dict.get(k): None when the key is absent.
Get(row, k) == IF k \in DOMAIN row THEN row[k] ELSE None

\* dict.get(k, default).
GetDefault(row, k, default) == IF k \in DOMAIN row THEN row[k] ELSE default

\* row[k] = v: adds the key or overwrites its value.
SetItem(row, k, v) ==
    [x \in (DOMAIN row) \cup {k} |-> IF x = k THEN v ELSE row[x]]

\* a or b.
PyOr(a, b) == IF Truthy(a) THEN a ELSE b

\* The outcome of an expression that may raise.
Ok(v) == [raised |-> FALSE, v |-> v]

Raise == [raised |-> TRUE, v |-> None]

(***************************************************************************)
(* Characters and decimal numerals.                                        *)
(***************************************************************************)
Digits == {"0", "1", "2", "3", "4", "5", "6", "7", "8", "9"}

DigitVal(c) ==
    CASE c = "0" -> 0 [] c = "1" -> 1 [] c = "2" -> 2 [] c = "3" -> 3
      [] c = "4" -> 4 [] c = "5" -> 5 [] c = "6" -> 6 [] c = "7" -> 7
      [] c = "8" -> 8 [] c = "9" -> 9

IsDigitAt(s, i) == i >= 1 /\ i <= Len(s) /\ s[i] \in Digits

AllDigits(s) == \A i \in 1..Len(s) : s[i] \in Digits

\* int() of a run of decimal digits.
RECURSIVE NatOf(_)
NatOf(s) ==
    IF Len(s) = 0 THEN 0
    ELSE 10 * NatOf(SubSeq(s, 1, Len(s) - 1)) + DigitVal(s[Len(s)])

(***************************************************************************)
(* datetime.strptime(s, '%Y-%m-%d') and date.toordinal, as CPython's       *)
(* _strptime and datetime modules compute them.  The format compiles to    *)
(*   (?P<Y>\d\d\d\d)-(?P<m>1[0-2]|0[1-9]|[1-9])-                           *)
(*   (?P<d>3[0-1]|[1-2]\d|0[1-9]|[1-9]| [1-9])                             *)
(* matched at the start of the string; text left after the match, a month  *)
(* day the month does not have, and year 0 are ValueErrors, and a value    *)
(* that is not a str is a TypeError.                                       *)
(***************************************************************************)
IsLeap(y) == y % 4 = 0 /\ (y % 100 # 0 \/ y % 400 = 0)

DaysInMonth(y, m) ==
    CASE m = 2 -> IF IsLeap(y) THEN 29 ELSE 28
      [] m \in {4, 6, 9, 11} -> 30
      [] OTHER -> 31

DaysBeforeYear(y) ==
    LET y1 == y - 1
    IN  y1 * 365 + (y1 \div 4) - (y1 \div 100) + (y1 \div 400)

RECURSIVE DaysBeforeMonth(_, _)
DaysBeforeMonth(y, m) ==
    IF m = 1 THEN 0 ELSE DaysBeforeMonth(y, m - 1) + DaysInMonth(y, m - 1)

\* date(y, m, d).toordinal()
ToOrdinal(y, m, d) == DaysBeforeYear(y) + DaysBeforeMonth(y, m) + d

\* The length the group (?P<m>...) takes at position i: the first alternative
\* that matches and is followed by the literal "-"; 0 when none does.
MonthLen(s, i) ==
    LET dash(j) == j <= Len(s) /\ s[j] = "-"
    IN  IF IsDigitAt(s, i) /\ s[i] = "1" /\ IsDigitAt(s, i + 1)
           /\ s[i + 1] \in {"0", "1", "2"} /\ dash(i + 2) THEN 2
        ELSE IF IsDigitAt(s, i) /\ s[i] = "0" /\ IsDigitAt(s, i + 1)
           /\ s[i + 1] # "0" /\ dash(i + 2) THEN 2
        ELSE IF IsDigitAt(s, i) /\ s[i] # "0" /\ dash(i + 1) THEN 1
        ELSE 0

\* The length the group (?P<d>...) takes at position i: the first alternative
\* that matches (the pattern ends here, so nothing makes the match backtrack).
DayLen(s, i) ==
    IF IsDigitAt(s, i) /\ s[i] = "3" /\ IsDigitAt(s, i + 1)
       /\ s[i + 1] \in {"0", "1"} THEN 2
    ELSE IF IsDigitAt(s, i) /\ s[i] \in {"1", "2"} /\ IsDigitAt(s, i + 1) THEN 2
    ELSE IF IsDigitAt(s, i) /\ s[i] = "0" /\ IsDigitAt(s, i + 1)
       /\ s[i + 1] # "0" THEN 2
    ELSE IF IsDigitAt(s, i) /\ s[i] # "0" THEN 1
    ELSE IF i <= Len(s) /\ s[i] = " " /\ IsDigitAt(s, i + 1)
       /\ s[i + 1] # "0" THEN 2
    ELSE 0

\* int() of a matched group; int(" 5") is 5.
GroupInt(s, i, n) ==
    IF s[i] = " " THEN NatOf(SubSeq(s, i + 1, i + n - 1))
    ELSE NatOf(SubSeq(s, i, i + n - 1))

\* datetime.strptime(v, '%Y-%m-%d'): Ok(ordinal of the date) or an exception.
Strptime(v) ==
    IF v.t # "str" THEN Raise
    ELSE
      LET s == v.s
          yOk == Len(s) >= 5 /\ AllDigits(SubSeq(s, 1, 4)) /\ s[5] = "-"
          mLen == IF yOk THEN MonthLen(s, 6) ELSE 0
          dLen == IF mLen > 0 THEN DayLen(s, 7 + mLen) ELSE 0
      IN  IF dLen = 0 THEN Raise
          ELSE IF 6 + mLen + dLen # Len(s) THEN Raise
          ELSE
            LET y == NatOf(SubSeq(s, 1, 4))
                m == GroupInt(s, 6, mLen)
                d == GroupInt(s, 7 + mLen, dLen)
            IN  IF y < 1 \/ d > DaysInMonth(y, m) THEN Raise
                ELSE Ok(ToOrdinal(y, m, d))

(***************************************************************************)
(* float(v) and the arithmetic of the shipping-cost ratio.  Floats are     *)
(* held exactly, in hundredths; the numerals of the model carry at most    *)
(* two fractional digits and no exponent.  On the amounts of the model     *)
(* the exact quotient, rounded half to even, is the double that CPython's  *)
(* round((shipping / total) * 100, 2) returns.                             *)
(***************************************************************************)
RECURSIVE Strip(_)
\* str.strip() of the blanks float() ignores around a numeral.
Strip(s) ==
    IF Len(s) > 0 /\ s[1] = " " THEN Strip(Tail(s))
    ELSE IF Len(s) > 0 /\ s[Len(s)] = " " THEN Strip(SubSeq(s, 1, Len(s) - 1))
    ELSE s

\* The position of the first "." of s, or Len(s) + 1.
RECURSIVE DotAt(_, _)
DotAt(s, i) ==
    IF i > Len(s) \/ s[i] = "." THEN i ELSE DotAt(s, i + 1)

\* The fractional digits of a numeral, in hundredths.
FracHundredths(frac) ==
    CASE Len(frac) = 0 -> 0
      [] Len(frac) = 1 -> 10 * NatOf(frac)
      [] Len(frac) = 2 -> NatOf(frac)

\* float(s) of a str: Ok(a float) or a ValueError.
ParseFloat(s) ==
    LET b == Strip(s)
        signed == Len(b) > 0 /\ b[1] \in {"+", "-"}
        sign == IF Len(b) > 0 /\ b[1] = "-" THEN -1 ELSE 1
        u == IF signed THEN Tail(b) ELSE b
        dot == DotAt(u, 1)
        whole == SubSeq(u, 1, dot - 1)
        frac == SubSeq(u, dot + 1, Len(u))
    IN  IF u = <<"n", "a", "n">> THEN Ok(NaN)
        ELSE IF ~(AllDigits(whole) /\ AllDigits(frac)) THEN Raise
        ELSE IF Len(whole) + Len(frac) = 0 THEN Raise
        ELSE Ok(FloatVal(sign * (100 * NatOf(whole) + FracHundredths(frac))))

\* float(v): a TypeError for None.
PyFloat(v) ==
    CASE v.t = "int" -> Ok(FloatVal(100 * v.n))
      [] v.t = "float" -> Ok(v)
      [] v.t = "nan" -> Ok(NaN)
      [] v.t = "str" -> ParseFloat(v.s)
      [] OTHER -> Raise

\* RoundHalfEven truncating instead of rounding.
RoundDown(n, d) == n \div d

\* n / d rounded to the nearest integer, ties to even (d > 0).
RoundHalfEven(n, d) ==
    LET q == n \div d
        r == n % d
    IN  IF 2 * r < d THEN q
        ELSE IF 2 * r > d THEN q + 1
        ELSE IF q % 2 = 0 THEN q ELSE q + 1

\* total > 0 on floats: False for NaN.
FloatPositive(x) == x.t = "float" /\ x.h > 0

\* round((shipping / total) * 100, 2) for total > 0.
RoundedPercent(shipping, total) ==
    IF shipping.t = "nan" THEN NaN
    ELSE FloatVal(RoundHalfEven(10000 * shipping.h, total.h))

(***************************************************************************)
(* calculate_kpi_fields.                                                   *)
(***************************************************************************)
DerivedFields ==
    {"days_order_entry", "days_order_confirmation", "days_fulfillment",
     "days_late_early", "on_time_delivery", "percent_shipping_cost"}

OnTime == Str(<<"O", "n", " ", "T", "i", "m", "e">>)

Late == Str(<<"L", "a", "t", "e">>)

Pending == Str(<<"P", "e", "n", "d", "i", "n", "g">>)

\* The body of a date try block: (strptime(later) - strptime(earlier)).days.
DaysBetween(earlier, later) ==
    LET e == Strptime(earlier)
        l == Strptime(later)
    IN  IF e.raised \/ l.raised THEN Raise ELSE Ok(IntVal(l.v - e.v))

\* Guard with the except clause left out: the exception propagates.
GuardMissing(r, fallback) == r

\* try: ... except: <fallback>
Guard(r, fallback) == IF r.raised THEN Ok(fallback) ELSE r

\* One of the four date blocks: both values truthy, then the guarded
\* difference, else None.
DayDelta(row, earlierKey, laterKey) ==
    IF Truthy(Get(row, earlierKey)) /\ Truthy(Get(row, laterKey))
    THEN Guard(DaysBetween(row[earlierKey], row[laterKey]), None)
    ELSE Ok(None)

\* OnTimeDelivery with `< 0` for `<= 0`: a shipment on the target day is late.
OnTimeDeliveryStrict(row) ==
    IF Truthy(Get(row, "actual_ship_date"))
    THEN IF row["days_late_early"] # None
         THEN IF row["days_late_early"].n < 0 THEN OnTime ELSE Late
         ELSE Pending
    ELSE Pending

\* The on-time block; it reads the days_late_early the same pass has stored.
OnTimeDelivery(row) ==
    IF Truthy(Get(row, "actual_ship_date"))
    THEN IF row["days_late_early"] # None
         THEN IF row["days_late_early"].n <= 0 THEN OnTime ELSE Late
         ELSE Pending
    ELSE Pending

\* The body of the percent try block.
PercentBody(row) ==
    LET shipping == PyFloat(PyOr(GetDefault(row, "shipping_cost", IntVal(0)),
                                 IntVal(0)))
        total == PyFloat(PyOr(GetDefault(row, "order_total", IntVal(0)),
                              IntVal(0)))
    IN  IF shipping.raised \/ total.raised THEN Raise
        ELSE IF FloatPositive(total.v)
             THEN Ok(RoundedPercent(shipping.v, total.v))
             ELSE Ok(IntVal(0))

\* PercentShippingCost with the fallback of the date blocks, None.
PercentShippingCostNone(row) == Guard(PercentBody(row), None)

PercentShippingCost(row) == Guard(PercentBody(row), IntVal(0))

\* row[key] = the value of r, unless an exception is already propagating or
\* r raises, which leaves the row as the earlier blocks made it.
Store(acc, key, r) ==
    IF acc.raised THEN acc
    ELSE IF r.raised THEN [raised |-> TRUE, row |-> acc.row]
    ELSE [raised |-> FALSE, row |-> SetItem(acc.row, key, r.v)]

\* The six blocks of the loop body, each on the row the earlier ones left.
OrderEntryBlock(acc) ==
    Store(acc, "days_order_entry",
          DayDelta(acc.row, "po_received_date", "transaction_date"))

OrderConfirmationBlock(acc) ==
    Store(acc, "days_order_confirmation",
          DayDelta(acc.row, "po_received_date", "order_confirmed_date"))

FulfillmentBlock(acc) ==
    Store(acc, "days_fulfillment",
          DayDelta(acc.row, "order_confirmed_date", "actual_ship_date"))

LateEarlyBlock(acc) ==
    Store(acc, "days_late_early",
          DayDelta(acc.row, "target_ship_date", "actual_ship_date"))

OnTimeBlock(acc) ==
    IF acc.raised THEN acc
    ELSE Store(acc, "on_time_delivery", Ok(OnTimeDelivery(acc.row)))

PercentBlock(acc) ==
    Store(acc, "percent_shipping_cost", PercentShippingCost(acc.row))

\* The body of the for loop, for one row.
CalcRow(row) ==
    PercentBlock(OnTimeBlock(LateEarlyBlock(FulfillmentBlock(
        OrderConfirmationBlock(OrderEntryBlock([raised |-> FALSE,
                                                row |-> row]))))))

\* for row in data: ...; return data.  The rows are changed in place, so an
\* exception leaves the rows before it enriched.
RECURSIVE CalcFrom(_, _)
CalcNext(d, i, r) ==
    IF r.raised THEN [raised |-> TRUE, data |-> [d EXCEPT ![i] = r.row]]
    ELSE CalcFrom([d EXCEPT ![i] = r.row], i + 1)

CalcFrom(d, i) ==
    IF i > Len(d) THEN [raised |-> FALSE, data |-> d]
    ELSE CalcNext(d, i, CalcRow(d[i]))

ListResult(r) == [raised |-> r.raised, data |-> List(r.data)]

CalculateKpiFields(d) == ListResult(CalcFrom(d.xs, 1))

(***************************************************************************)
(* fetch_netsuite_data.  The service's reply is the environment's choice:  *)
(* requests.post raises, or returns a status and a body; the body is not   *)
(* JSON (response.json() raises), a JSON array (data.get raises) or a JSON *)
(* object.                                                                 *)
(***************************************************************************)
HTTP_OK == 200

ConnectionFailed == [kind |-> "exception"]

Reply(status, body) == [kind |-> "http", status |-> status, body |-> body]

NotJson == [kind |-> "not_json"]

JsonArray == [kind |-> "array"]

JsonObject(obj) == [kind |-> "object", obj |-> obj]

\* The try block's outcome for a reply with status 200.
DecodeItems(body) ==
    IF body.kind = "object" THEN Ok(GetDefault(body.obj, "items", List(<<>>)))
    ELSE Raise

\* FetchNetsuiteData without the test of the status code.
FetchIgnoringStatus(resp) ==
    IF resp.kind = "exception" THEN None
    ELSE Guard(DecodeItems(resp.body), None).v

FetchNetsuiteData(resp) ==
    IF resp.kind = "exception" THEN None
    ELSE IF resp.status = HTTP_OK THEN Guard(DecodeItems(resp.body), None).v
    ELSE None

(***************************************************************************)
(* save_to_json.  The file is absent, a complete snapshot, or the text an  *)
(* interrupted json.dump left: open(..., 'w') has truncated it and the     *)
(* rows before the failure were flushed.  What the file system does is the *)
(* environment's choice io: "ok", "open_fails", or a write (or the closing *)
(* flush) failing after io.rows rows.                                      *)
(***************************************************************************)
NoFile == [state |-> "absent"]

Snapshot(stamp, count, rows) ==
    [state |-> "complete",
     metadata |-> [last_updated |-> stamp, record_count |-> count],
     data |-> rows]

Partial(rows) == [state |-> "partial", data |-> rows]

\* Output counting one record too many.
OutputMiscounted(d) == Snapshot("now", Len(d.xs) + 1, d.xs)

\* The dict save_to_json serialises.
Output(d) == Snapshot("now", Len(d.xs), d.xs)

IoOutcomes(d) ==
    {[kind |-> "ok"], [kind |-> "open_fails"]}
        \cup {[kind |-> "write_fails", rows |-> k] :
                k \in 0..(IF d.t = "list" THEN Len(d.xs) ELSE 0)}

\* SaveToJson adding the records to those of the snapshot it finds.
SaveToJsonMerging(d, f, io) ==
    IF ~Truthy(d) THEN [ok |-> FALSE, file |-> f]
    ELSE IF io.kind = "open_fails" THEN [ok |-> FALSE, file |-> f]
    ELSE IF io.kind = "write_fails"
         THEN [ok |-> FALSE, file |-> Partial(SubSeq(d.xs, 1, io.rows))]
    ELSE [ok |-> TRUE,
          file |-> IF f.state = "complete"
                   THEN Snapshot("now", Len(f.data) + Len(d.xs), f.data \o d.xs)
                   ELSE Snapshot("now", Len(d.xs), d.xs)]

\* The return value and the file save_to_json leaves.
SaveToJson(d, f, io) ==
    IF ~Truthy(d) THEN [ok |-> FALSE, file |-> f]
    ELSE IF io.kind = "open_fails" THEN [ok |-> FALSE, file |-> f]
    ELSE IF io.kind = "write_fails"
         THEN [ok |-> FALSE, file |-> Partial(SubSeq(Output(d).data, 1, io.rows))]
    ELSE [ok |-> TRUE, file |-> Output(d)]

(***************************************************************************)
(* main.                                                                   *)
(***************************************************************************)
ExitFailure == 1

ExitSuccess == 0

\* data = fetch_netsuite_data()
Fetch(resp) ==
    /\ pc = "start"
    /\ response' = resp
    /\ data' = FetchNetsuiteData(resp)
    /\ fetched' = data'
    /\ pc' = "fetched"
    /\ UNCHANGED <<file, file0, calls, exit_code>>

\* if not data: exit(1)
AbortNoData ==
    /\ pc = "fetched"
    /\ ~Truthy(data)
    /\ exit_code' = ExitFailure
    /\ pc' = "exited"
    /\ UNCHANGED <<response, data, fetched, file, file0, calls>>

\* What main does with the outcome r of calculate_kpi_fields.
Returned(r) ==
    /\ data' = r.data
    /\ pc' = IF r.raised THEN "exited" ELSE "enriched"
    /\ exit_code' = IF r.raised THEN ExitFailure ELSE exit_code

\* data = calculate_kpi_fields(data); an exception it raised would end the
\* process with a traceback and status 1.
Calculate ==
    /\ pc = "fetched"
    /\ Truthy(data)
    /\ Returned(CalculateKpiFields(data))
    /\ calls' = calls \cup {"calculate_kpi_fields"}
    /\ UNCHANGED <<response, fetched, file, file0>>

\* Saved without the exit(1) of the failure branch.
SavedIgnoringFailure(r) ==
    /\ file' = r.file
    /\ exit_code' = ExitSuccess

\* What main does with the outcome r of save_to_json.
Saved(r) ==
    /\ file' = r.file
    /\ exit_code' = IF r.ok THEN ExitSuccess ELSE ExitFailure

\* success = save_to_json(data); exit(1) unless success.
Save(io) ==
    /\ pc = "enriched"
    /\ Saved(SaveToJson(data, file, io))
    /\ calls' = calls \cup {"save_to_json"}
    /\ pc' = "exited"
    /\ UNCHANGED <<response, data, fetched, file0>>

(***************************************************************************)
(* The inputs.  The query selects TO_CHAR(..., 'YYYY-MM-DD') dates and two *)
(* amounts; SuiteQL leaves a null column out of the item or sends null,    *)
(* and the values below add what a reply could hold instead.               *)
(***************************************************************************)
DigitChar(n) ==
    CASE n = 0 -> "0" [] n = 1 -> "1" [] n = 2 -> "2" [] n = 3 -> "3"
      [] n = 4 -> "4" [] n = 5 -> "5" [] n = 6 -> "6" [] n = 7 -> "7"
      [] n = 8 -> "8" [] n = 9 -> "9"

\* TO_CHAR(date, 'YYYY-MM-DD')
IsoDate(y, m, d) ==
    Str(<<DigitChar(y \div 1000), DigitChar((y \div 100) % 10),
          DigitChar((y \div 10) % 10), DigitChar(y % 10), "-",
          DigitChar(m \div 10), DigitChar(m % 10), "-",
          DigitChar(d \div 10), DigitChar(d % 10)>>)

\* The marker of a column the item does not carry.
Missing == [t |-> "missing"]

\* The dict with the keys of cols whose value is not Missing.
MkRow(cols) ==
    [k \in {c \in DOMAIN cols : cols[c] # Missing} |-> cols[k]]

DateColumns ==
    {"transaction_date", "po_received_date", "order_confirmed_date",
     "target_ship_date", "actual_ship_date"}

CostColumns == {"shipping_cost", "order_total"}

Unpadded == Str(<<"2", "0", "2", "4", "-", "1", "-", "5">>)

Slashed == Str(<<"0", "1", "/", "0", "5", "/", "2", "0", "2", "4">>)

DateValues ==
    {Missing, None, Str(<<>>),
     IsoDate(2023, 12, 30), IsoDate(2024, 3, 1),
     Unpadded, IsoDate(2024, 2, 30), Slashed}

ShippingValues ==
    {Missing, None, Str(<<>>), Str(<<"a", "b", "c">>), IntVal(0), IntVal(50),
     IntVal(-50), IntVal(1), Str(<<"1", "2", ".", "5">>), Str(<<"n", "a", "n">>)}

TotalValues ==
    {Missing, None, Str(<<>>), Str(<<"a", "b", "c">>), IntVal(0), IntVal(-100),
     IntVal(1000), Str(<<"1", "0", "0", "0">>), IntVal(3), IntVal(800), Str(<<"n", "a", "n">>)}

\* The example record of the specification's testable properties.
ExampleRow ==
    [transaction_id |-> IntVal(7),
     po_received_date |-> IsoDate(2024, 1, 1),
     transaction_date |-> IsoDate(2024, 1, 5),
     order_confirmed_date |-> IsoDate(2024, 1, 2),
     target_ship_date |-> IsoDate(2024, 1, 10),
     actual_ship_date |-> IsoDate(2024, 1, 8),
     shipping_cost |-> IntVal(50),
     order_total |-> IntVal(1000)]

\* The rows of the run specification's replies.
SampleRows ==
    {ExampleRow,
     MkRow([ExampleRow EXCEPT !.actual_ship_date = Missing]),
     [ExampleRow EXCEPT !.actual_ship_date = IsoDate(2024, 1, 12),
                        !.order_total = IntVal(0)],
     [ExampleRow EXCEPT !.po_received_date = Slashed,
                        !.shipping_cost = Str(<<"a", "b", "c">>)],
     [ExampleRow EXCEPT !.shipping_cost = IntVal(-50),
                        !.target_ship_date = None],
     [transaction_id |-> IntVal(8)]}

\* The rows of the enricher's specification: every combination of date
\* values with two pairs of amounts, and every pair of amounts with three
\* combinations of dates.
KpiRows ==
    {MkRow([k \in DateColumns \cup CostColumns \cup {"transaction_id"} |->
              IF k \in DateColumns THEN dates[k]
              ELSE IF k = "transaction_id" THEN IntVal(7)
              ELSE costs[k]]) :
        dates \in [DateColumns -> DateValues],
        costs \in {[shipping_cost |-> IntVal(50), order_total |-> IntVal(1000)],
                   [shipping_cost |-> Missing, order_total |-> Str(<<"a", "b", "c">>)]}}
    \cup
    {MkRow([k \in DateColumns \cup CostColumns \cup {"transaction_id"} |->
              IF k \in DateColumns THEN row[k]
              ELSE IF k = "transaction_id" THEN IntVal(7)
              ELSE IF k = "shipping_cost" THEN s ELSE tot]) :
        row \in {ExampleRow,
                 [ExampleRow EXCEPT !.actual_ship_date = Missing],
                 [ExampleRow EXCEPT !.po_received_date = Slashed]},
        s \in ShippingValues, tot \in TotalValues}

\* The sequences of at most n elements of S.
RECURSIVE SeqsUpTo(_, _)
SeqsUpTo(S, n) ==
    IF n = 0 THEN {<<>>}
    ELSE LET shorter == SeqsUpTo(S, n - 1)
         IN  shorter \cup {Append(q, x) : q \in {r \in shorter : Len(r) = n - 1},
                                          x \in S}

ItemLists == {List(q) : q \in SeqsUpTo(SampleRows, MaxRecords)}

Bodies ==
    {NotJson, JsonArray, JsonObject([count |-> IntVal(0)]),
     JsonObject([items |-> None])}
        \cup {JsonObject([items |-> l]) : l \in ItemLists}

Responses ==
    {ConnectionFailed}
        \cup {Reply(s, b) : s \in {HTTP_OK, 401, 500}, b \in Bodies}

\* What NetSuite_KPI_Data.json holds when the job starts: nothing, the
\* snapshot of an earlier run, or what an earlier failed run left.
PriorFiles ==
    {NoFile,
     Snapshot("earlier", 1, CalculateKpiFields(List(<<ExampleRow>>)).data.xs),
     Partial(<<>>)}

(***************************************************************************)
(* The run: main, from the start of the process to its exit.               *)
(***************************************************************************)
Init ==
    /\ pc = "start"
    /\ response = None
    /\ data = None
    /\ fetched = None
    /\ file \in PriorFiles
    /\ file0 = file
    /\ calls = {}
    /\ exit_code = -1

Next ==
    \/ \E resp \in Responses : Fetch(resp)
    \/ AbortNoData
    \/ Calculate
    \/ \E io \in IoOutcomes(data) : Save(io)

Spec == Init /\ [][Next]_vars

(***************************************************************************)
(* The enricher alone: calculate_kpi_fields applied to one row of KpiRows  *)
(* or to a list of sample rows.                                            *)
(***************************************************************************)
KpiInputs == {List(<<r>>) : r \in KpiRows} \cup (ItemLists \ {List(<<>>)})

KpiInit ==
    /\ pc = "fetched"
    /\ data \in KpiInputs
    /\ response = Reply(HTTP_OK, JsonObject([items |-> data]))
    /\ fetched = data
    /\ file = NoFile
    /\ file0 = NoFile
    /\ calls = {}
    /\ exit_code = -1

KpiNext == Calculate

SpecKpi == KpiInit /\ [][KpiNext]_vars

(***************************************************************************)
(* The properties.  The vocabulary below is that of the specification, not *)
(* of the code: what a failed fetch is, when a date is textually           *)
(* well-formed, the calendar's day count, the nearest hundredth.           *)
(***************************************************************************)
Abs(n) == IF n < 0 THEN -n ELSE n

Running == pc = "start"

\* The request raised, the status was not 200, or decoding the body raised.
FetchFailed ==
    /\ ~Running
    /\ \/ response.kind = "exception"
       \/ response.status # 200
       \/ response.body.kind \in {"not_json", "array"}

\* The reply was a success carrying a list of at least one record.
FetchedRecords ==
    /\ ~Running
    /\ response.kind = "http"
    /\ response.status = 200
    /\ response.body.kind = "object"
    /\ "items" \in DOMAIN response.body.obj
    /\ response.body.obj["items"].t = "list"
    /\ Len(response.body.obj["items"].xs) >= 1

AllEnriched(rows) ==
    \A i \in 1..Len(rows) : DerivedFields \subseteq DOMAIN rows[i]

\* The file is a whole snapshot of this run's enriched records.
Persisted ==
    /\ data.t = "list"
    /\ file.state = "complete"
    /\ file.metadata.last_updated = "now"
    /\ file.data = data.xs

\* C1: when the fetch fails (request exception, non-200 status, or an
\* exception decoding the body) the run aborts before enrichment:
\* calculate_kpi_fields and save_to_json are never invoked, the snapshot file
\* keeps the content it had before the run, the only step left is the exit,
\* and the exit status is non-zero.
C1_FetchFailureAborts ==
    FetchFailed =>
        /\ pc \in {"fetched", "exited"}
        /\ ~Truthy(data)
        /\ calls = {}
        /\ file = file0
        /\ pc = "exited" => exit_code # 0

C1_Witness ==
    /\ pc = "exited"
    /\ FetchFailed
    /\ response.kind = "http"
    /\ response.status = 500
    /\ response.body.kind = "object"
    /\ file0.state = "complete"

\* C2: when main has exited, the exit status is 0 exactly when the fetch
\* succeeded with at least one record, both calculate_kpi_fields and
\* save_to_json ran, every record carries the derived fields and the file is
\* the whole new snapshot; in every other case (failed fetch, zero records,
\* failed persistence) it is non-zero.
C2_ExitStatus ==
    pc = "exited" =>
        /\ exit_code \in {0, 1}
        /\ exit_code = 0 <=>
             /\ FetchedRecords
             /\ calls = {"calculate_kpi_fields", "save_to_json"}
             /\ AllEnriched(data.xs)
             /\ Persisted

C2_Witness ==
    /\ pc = "exited"
    /\ exit_code = 0
    /\ Len(data.xs) = 2
    /\ file0.state = "complete"

\* C3: whenever save_to_json has failed, no partial file is left: the file
\* is what it was before the call or a whole new snapshot.
C3_NoPartialFile ==
    (pc = "exited" /\ "save_to_json" \in calls /\ exit_code # 0) =>
        \/ file = file0
        \/ Persisted

\* C4: after enrichment on_time_delivery is "Pending" whenever the record's
\* actual_ship_date is absent (missing, null or empty); it is "On Time"
\* exactly when days_late_early is non-null and <= 0, and "Late" exactly
\* when days_late_early is non-null and > 0.
C4_OnTimeDelivery ==
    pc = "enriched" =>
        \A i \in 1..Len(data.xs) :
            LET raw == fetched.xs[i]
                out == data.xs[i]
                late == out["days_late_early"]
            IN  /\ ("actual_ship_date" \notin DOMAIN raw
                      \/ raw["actual_ship_date"] \in {None, Str(<<>>)})
                        => out["on_time_delivery"] = Pending
                /\ out["on_time_delivery"] = OnTime
                        <=> (late # None /\ late.n <= 0)
                /\ out["on_time_delivery"] = Late
                        <=> (late # None /\ late.n > 0)

C4_Witness ==
    /\ pc = "enriched"
    /\ data.xs[1]["days_late_early"] = IntVal(0)
    /\ data.xs[1]["on_time_delivery"] = OnTime

\* A number that is greater than or equal to zero.
NonNegativeNumber(v) ==
    \/ v.t = "int" /\ v.n >= 0
    \/ v.t = "float" /\ v.h >= 0

\* The amount a column is read as: missing, null, empty or non-numeric
\* counts as 0.
Amount(row, k) ==
    IF k \notin DOMAIN row THEN FloatVal(0)
    ELSE IF ~Truthy(row[k]) THEN FloatVal(0)
    ELSE IF PyFloat(row[k]).raised THEN FloatVal(0)
    ELSE PyFloat(row[k]).v

\* A number, in hundredths.
Hundredths(v) == IF v.t = "int" THEN 100 * v.n ELSE v.h

\* C5 as stated: whatever shipping_cost and order_total hold, the
\* percent_shipping_cost of every enriched record is a number >= 0.
C5_PercentNonNegative ==
    pc = "enriched" =>
        \A i \in 1..Len(data.xs) :
            NonNegativeNumber(data.xs[i]["percent_shipping_cost"])

\* C5 as amended: the percent_shipping_cost of every enriched record whose
\* shipping_cost is missing, null, empty, non-numeric or a finite number
\* >= 0 is a number >= 0.
C5_PercentNonNegativeAmended ==
    pc = "enriched" =>
        \A i \in 1..Len(data.xs) :
            NonNegativeNumber(Amount(fetched.xs[i], "shipping_cost"))
                => NonNegativeNumber(data.xs[i]["percent_shipping_cost"])

C5_Witness ==
    /\ pc = "enriched"
    /\ Get(fetched.xs[1], "shipping_cost") = IntVal(50)
    /\ Get(fetched.xs[1], "order_total") = IntVal(3)
    /\ data.xs[1]["percent_shipping_cost"] = FloatVal(166667)

\* p hundredths is n / d rounded to 2 decimals (d > 0).
NearestHundredth(p, n, d) == 2 * Abs(100 * n - p * d) <= d

\* C6: percent_shipping_cost is exactly 0 whenever order_total is missing,
\* non-numeric or <= 0, and enrichment raises nothing; otherwise it is
\* 100 * shipping_cost / order_total rounded to 2 decimals, a missing or
\* non-numeric shipping_cost counting as 0.
C6_PercentValue ==
    pc # "fetched" =>
        /\ pc = "enriched"
        /\ \A i \in 1..Len(data.xs) :
            LET raw == fetched.xs[i]
                pct == data.xs[i]["percent_shipping_cost"]
                shipping == Amount(raw, "shipping_cost")
                total == Amount(raw, "order_total")
            IN  IF total.t = "float" /\ total.h > 0
                THEN IF shipping.t = "nan" THEN pct = NaN
                     ELSE /\ pct.t \in {"int", "float"}
                          /\ NearestHundredth(Hundredths(pct),
                                              100 * shipping.h, total.h)
                ELSE pct \in {IntVal(0), FloatVal(0)}

C6_Witness ==
    /\ pc = "enriched"
    /\ Get(fetched.xs[1], "shipping_cost") = Str(<<"1", "2", ".", "5">>)
    /\ Get(fetched.xs[1], "order_total") = IntVal(3)
    /\ data.xs[1]["percent_shipping_cost"] = FloatVal(41667)

\* Present, and textually well-formed as YYYY-MM-DD.
WellFormed(row, k) ==
    /\ k \in DOMAIN row
    /\ row[k].t = "str"
    /\ Len(row[k].s) = 10
    /\ \A j \in {1, 2, 3, 4, 6, 7, 9, 10} : row[k].s[j] \in Digits
    /\ row[k].s[5] = "-"
    /\ row[k].s[8] = "-"

YearOf(v) == NatOf(SubSeq(v.s, 1, 4))

MonthOf(v) == NatOf(SubSeq(v.s, 6, 7))

DayOf(v) == NatOf(SubSeq(v.s, 9, 10))

\* A well-formed text that names a day of the calendar.
CalendarDate(row, k) ==
    /\ WellFormed(row, k)
    /\ YearOf(row[k]) >= 1
    /\ MonthOf(row[k]) \in 1..12
    /\ DayOf(row[k]) >= 1
    /\ DayOf(row[k]) <= DaysInMonth(YearOf(row[k]), MonthOf(row[k]))

\* The day number of a civil date, counted by eras of 400 years from
\* 1 March (not the way the code counts it).
CivilDays(y, m, d) ==
    LET yy == IF m <= 2 THEN y - 1 ELSE y
        era == yy \div 400
        yoe == yy - era * 400
        mp == (m + 9) % 12
        doy == (153 * mp + 2) \div 5 + d - 1
        doe == yoe * 365 + (yoe \div 4) - (yoe \div 100) + doy
    IN  era * 146097 + doe

CivilDaysOf(v) == CivilDays(YearOf(v), MonthOf(v), DayOf(v))

\* What the claim asks of one day-delta field: the exact difference when
\* both texts are calendar dates, null when either is missing, empty or not
\* well-formed.
DeltaAsClaimed(raw, out, field, earlierKey, laterKey) ==
    /\ (CalendarDate(raw, earlierKey) /\ CalendarDate(raw, laterKey))
         => out[field]
              = IntVal(CivilDaysOf(raw[laterKey]) - CivilDaysOf(raw[earlierKey]))
    /\ (~WellFormed(raw, earlierKey) \/ ~WellFormed(raw, laterKey))
         => out[field] = None

\* C7: each of the four day-delta fields is the exact signed whole-day
\* difference of its two dates when both are present and textually
\* well-formed as YYYY-MM-DD, and null when either is missing, empty or not
\* well-formed as YYYY-MM-DD.
C7_DayDeltas ==
    pc = "enriched" =>
        \A i \in 1..Len(data.xs) :
            LET raw == fetched.xs[i]
                out == data.xs[i]
            IN  /\ DeltaAsClaimed(raw, out, "days_order_entry",
                                  "po_received_date", "transaction_date")
                /\ DeltaAsClaimed(raw, out, "days_order_confirmation",
                                  "po_received_date", "order_confirmed_date")
                /\ DeltaAsClaimed(raw, out, "days_fulfillment",
                                  "order_confirmed_date", "actual_ship_date")
                /\ DeltaAsClaimed(raw, out, "days_late_early",
                                  "target_ship_date", "actual_ship_date")

\* The raw columns a derived field is computed from.
InputsOf(field) ==
    CASE field = "days_order_entry" -> {"po_received_date", "transaction_date"}
      [] field = "days_order_confirmation" ->
            {"po_received_date", "order_confirmed_date"}
      [] field = "days_fulfillment" -> {"order_confirmed_date", "actual_ship_date"}
      [] field = "days_late_early" -> {"target_ship_date", "actual_ship_date"}
      [] field = "on_time_delivery" -> {"target_ship_date", "actual_ship_date"}
      [] field = "percent_shipping_cost" -> {"shipping_cost", "order_total"}

Restrict(row, keys) == [k \in (DOMAIN row) \cap keys |-> row[k]]

\* C8: calculate_kpi_fields completes without raising whatever the fields
\* hold, every record of its result carries the six derived fields, and a
\* derived field is decided by its own input columns of its own record
\* alone: it is what enrichment gives for a record holding nothing else.
C8_NeverRaisesAndLocal ==
    pc # "fetched" =>
        /\ pc = "enriched"
        /\ Len(data.xs) = Len(fetched.xs)
        /\ \A i \in 1..Len(data.xs) :
            /\ DerivedFields \subseteq DOMAIN data.xs[i]
            /\ \A f \in DerivedFields :
                 data.xs[i][f] = CalcRow(Restrict(fetched.xs[i], InputsOf(f))).row[f]

C8_Witness ==
    /\ pc = "enriched"
    /\ Len(data.xs) = 1
    /\ Get(fetched.xs[1], "po_received_date") = Slashed
    /\ Get(fetched.xs[1], "order_total") = Str(<<"a", "b", "c">>)
    /\ data.xs[1]["days_order_entry"] = None
    /\ data.xs[1]["days_late_early"] = IntVal(62)
    /\ data.xs[1]["percent_shipping_cost"] = IntVal(0)

\* C9: in every snapshot save_to_json has written, metadata.record_count is
\* the length of the data sequence.
C9_RecordCount ==
    file.state = "complete" => file.metadata.record_count = Len(file.data)

C9_Witness ==
    /\ file.state = "complete"
    /\ file.metadata.last_updated = "now"
    /\ Len(file.data) = 2

\* C10: after a successful run the snapshot's data has the length and the
\* order of the fetched sequence: element i holds every raw field of fetched
\* record i with its value unchanged, the six derived fields of that record
\* and nothing else, and nothing of a prior snapshot.
C10_OrderAndFrame ==
    (pc = "exited" /\ exit_code = 0) =>
        /\ file.state = "complete"
        /\ Len(file.data) = Len(fetched.xs)
        /\ \A i \in 1..Len(fetched.xs) :
            /\ DOMAIN file.data[i] = (DOMAIN fetched.xs[i]) \cup DerivedFields
            /\ \A k \in DOMAIN fetched.xs[i] : file.data[i][k] = fetched.xs[i][k]
            /\ \A f \in DerivedFields :
                 file.data[i][f] = CalcRow(fetched.xs[i]).row[f]

C10_Witness ==
    /\ pc = "exited"
    /\ exit_code = 0
    /\ file0.state = "complete"
    /\ Len(fetched.xs) = 2
    /\ fetched.xs[1] # fetched.xs[2]

====
